---- MODULE Spec2Model ----
(***************************************************************************)
(* Workload identity hook of the allocation runner                         *)
(* (client/allocrunner/identity_hook.go): the initial signing done by      *)
(* Prerun, the renewal goroutine started by it, and the cancellation       *)
(* issued by Stop and Shutdown.                                            *)
(*                                                                         *)
(* Time.  One model time unit stands for five seconds.  Every handler is   *)
(* modelled at one instant, which is instant 0 of its own time frame: an   *)
(* expiration is kept as its offset from the instant at which the handler  *)
(* runs, and every time.Now() of the handler is 0.                         *)
(***************************************************************************)
EXTENDS Integers, Sequences, FiniteSets, TLC

(***************************************************************************)
(* Bounds of the model.                                                    *)
(***************************************************************************)
MaxTasks == 2
MaxIds == 2
MaxFloor == 2
MaxResp == 2
MaxRenewCalls == 3
MaxCancelCalls == 2
MaxFailRun == 11

(***************************************************************************)
(* Program constants, in model time units.                                 *)
(***************************************************************************)
\* time.Hour, the backoff ceiling
Hour == 720
\* 10 * time.Second, the minWait newIdentityHook sets
DefaultMinWait == 2
\* the zero time.Time, as an offset from now: further in the past than any
\* expiration
ZeroTime == -100000

\* 30 * time.Hour, the high default expiration
DefaultExp == 30 * Hour

(***************************************************************************)
(* Inputs.                                                                 *)
(***************************************************************************)
\* names of the identities of a task, by position in task.Identities
IdentityNames == <<"a", "b", "c", "d">>
\* the name of an identity that no task declares
Unrequested == "x"
\* names of the tasks, by position in ar.tasks
TaskNames == <<"t1", "t2", "t3", "t4">>
\* TTLs of an identity: 0 (never renewed) or ten minutes
TTLs == {0, 120}
\* minWait: 10s by default, settable by tests
Floors == 1..MaxFloor
\* offsets from now of the expirations the signer returns: within minWait
\* of now, a few times minWait, and longer
ExpOffsets == {1, 5, 44}
\* the latest of them
LongExp == CHOOSE e \in ExpOffsets : \A f \in ExpOffsets : f <= e
\* the expirations of the tokens of Prerun
InitialExps == {5, 44}
AllocIDs == {"alloc1"}
CreateIndexes == {5}

Min(a, b) == IF a < b THEN a ELSE b

RECURSIVE Pow2(_)
Pow2(n) == IF n = 0 THEN 1 ELSE 2 * Pow2(n - 1)

\* a Go map without entries
EmptyMap == << >>

\* the identity lists of a task: k identities a, b, ... with any TTLs
IdLists ==
  UNION { { [i \in 1..k |-> [Name |-> IdentityNames[i], TTL |-> ttl[i]]]
            : ttl \in [1..k -> TTLs] } : k \in 0..MaxIds }

\* the task lists of an allocation
TaskLists ==
  UNION { { [i \in 1..n |-> [Name |-> TaskNames[i], Identities |-> ids[i]]]
            : ids \in [1..n -> IdLists] } : n \in 1..MaxTasks }

(***************************************************************************)
(* helper package                                                          *)
(***************************************************************************)
\* helper.RandomStagger: the values of a random duration in [0, intv)
RandomStagger(intv) == IF intv <= 0 THEN {0} ELSE 0..(intv - 1)

\* helper.Backoff: exponential in attempt, capped at backoffLimit
Backoff(backoffBase, backoffLimit, attempt) ==
  IF backoffBase <= 0 THEN 0
  ELSE IF attempt > 62 THEN backoffLimit
  ELSE Min(Pow2(attempt) * backoffBase, backoffLimit)

\* helper.ExpiryToRenewTime: the values of the time to wait before renewing
\* a credential that expires at exp: half of what is left plus a stagger of
\* up to a tenth, and never less than minWait
ExpiryToRenewTime(exp, now, minWait) ==
  LET left == exp - now
      renewAt == left \div 2
  IN IF renewAt < minWait
     THEN { minWait + s : s \in RandomStagger(minWait \div 10) }
     ELSE { renewAt + s : s \in RandomStagger(renewAt \div 10) }

(***************************************************************************)
(* State                                                                   *)
(***************************************************************************)
VARIABLES
  alloc,        \* ar.alloc: [ID, CreateIndex]
  tasks,        \* ar.tasks: sequence of [Name, Identities]
  minWait,      \* h.minWait
  callBudget,   \* the number of renewal signing calls a behaviour may make
  cancelled,    \* h.stopCtx is cancelled
  cancelCalls,  \* the number of Stop and Shutdown calls made
  stopResult,   \* what the last Stop returned: "none", "nil"
  hookPc,       \* Prerun: "running", "returned"
  prerunIdx,    \* Prerun: index in ar.tasks of the next task
  prerunErr,    \* what Prerun returned: "none", "nil", "error"
  signedWIDs,   \* Prerun's outer signedWIDs, the map handed to renew
  initCalls,    \* the SignIdentities calls made by getIdentities, in order
  initSigned,   \* per task, what the signer returned to getIdentities
  store,        \* hookResources: the signed task identities, or "unset"
  loops,        \* the number of renew goroutines started
  loopPc,       \* renew: "none", "entry", "top", "parked", "wokenTimer",
                \*        "wokenDone", "signing", "stopped"
  taskIdx,      \* renew: index in ar.tasks of the task of the outer loop
  reqs,         \* renew: reqs
  widMap,       \* renew: widMap, Identity.Name -> Identity
  renewNow,     \* renew: renewNow
  wait,         \* renew: wait
  retry,        \* renew: retry
  firstWait,    \* the wait of the first timer.Reset, or -1
  renewCalls,   \* the number of SignIdentities calls made by renew
  lastCall,     \* the last SignIdentities call made by renew
  sink,         \* per identity name, the token last written by setAltToken
  last          \* the last step of the renew goroutine, for the properties

config == <<alloc, tasks, minWait, callBudget>>
cancelVars == <<cancelled, cancelCalls, stopResult>>
hookVars == <<hookPc, prerunIdx, prerunErr, signedWIDs, initCalls,
              initSigned, store, loops>>
loopVars == <<loopPc, taskIdx, reqs, widMap, renewNow, wait, retry,
              firstWait, renewCalls, lastCall, sink, last>>
vars == <<config, cancelVars, hookVars, loopVars>>

NoCall == [minIndex |-> 0, req |-> << >>]
NoStep == [kind |-> "none", retry |-> 0, sinkFailed |-> FALSE,
           stray |-> FALSE, missing |-> FALSE, accepted |-> {},
           earliest |-> ZeroTime]

\* newIdentityHook, and an allocation runner with its allocation and tasks
InitWith(budgets, taskLists, floors) ==
  /\ alloc \in [ID : AllocIDs, CreateIndex : CreateIndexes]
  /\ tasks \in taskLists
  /\ minWait \in floors
  /\ callBudget \in budgets
  /\ cancelled = FALSE
  /\ cancelCalls = 0
  /\ stopResult = "none"
  /\ hookPc = "running"
  /\ prerunIdx = 1
  /\ prerunErr = "none"
  /\ signedWIDs = EmptyMap
  /\ initCalls = << >>
  /\ initSigned = << >>
  /\ store = "unset"
  /\ loops = 0
  /\ loopPc = "none"
  /\ taskIdx = 1
  /\ reqs = << >>
  /\ widMap = EmptyMap
  /\ renewNow = FALSE
  /\ wait = 0
  /\ retry = 0
  /\ firstWait = -1
  /\ renewCalls = 0
  /\ lastCall = NoCall
  /\ sink = EmptyMap
  /\ last = NoStep

\* the allocations of one task
OneTaskLists == { tl \in TaskLists : Len(tl) = 1 }

\* every allocation is followed up to its first renewal with the minWait of
\* newIdentityHook; an allocation of one task up to MaxRenewCalls renewals,
\* with any minWait
Init ==
  \/ InitWith({1}, TaskLists, {DefaultMinWait})
  \/ InitWith({MaxRenewCalls}, OneTaskLists, Floors)

(***************************************************************************)
(* The signer, as Prerun and renew see it                                  *)
(***************************************************************************)
\* the token the signer issues for an identity of a task: gen tells the
\* tokens of the answer to getIdentities ("initial") from those of the
\* answers to renew ("renewed")
JWT(taskName, name, gen) == <<taskName, name, gen>>

\* the requests for the identities wids of a task, in the order of wids
Requests(al, task, wids) ==
  [i \in 1..Len(wids) |-> [AllocID |-> al.ID, TaskName |-> task.Name,
                           IdentityName |-> wids[i].Name]]

\* the answer of the signer to an initial request that has a signed
\* identity for each of the first n requests, all with the expiration e
InitialAnswer(req, n, e) ==
  [i \in 1..n |-> [IdentityName |-> req[i].IdentityName,
                   JWT |-> JWT(req[i].TaskName, req[i].IdentityName, "initial"),
                   Expiration |-> e]]

\* the answers of the signer to an initial request: all the identities, or
\* all but the last
InitialAnswers(req) ==
  { InitialAnswer(req, Len(req), e) : e \in InitialExps }
  \cup { InitialAnswer(req, Len(req) - 1, e) : e \in {LongExp} }

\* the last signed identity of a name in a sequence of signed identities
LastOf(signed, name) ==
  signed[CHOOSE i \in DOMAIN signed :
           /\ signed[i].IdentityName = name
           /\ \A j \in DOMAIN signed : j > i => signed[j].IdentityName # name]

\* getIdentities: the initial workload identities indexed by name
WidTokens(signed) ==
  [name \in { signed[i].IdentityName : i \in DOMAIN signed } |->
     LastOf(signed, name).JWT]

(***************************************************************************)
(* identityHook.Prerun, one iteration of its loop over ar.tasks at a time  *)
(***************************************************************************)
\* (mutant) the request is sent without the creation index
GetIdentitiesCallZeroIndex(al, task) ==
  [minIndex |-> 0,
   req |-> Requests(al, task, task.Identities)]

\* getIdentities: the request it sends for a task
GetIdentitiesCall(al, task) ==
  [minIndex |-> al.CreateIndex,
   req |-> Requests(al, task, task.Identities)]

\* hookResources.SetSignedTaskIdentities: the map passed replaces the map
\* that is stored
SetSignedTaskIdentities(stored, m) == m

\* getIdentities returns (nil, nil) for a task without identities, without
\* calling the signer; Prerun stores the nil map in hookResources
PrerunTaskNoIdentities ==
  /\ hookPc = "running"
  /\ prerunIdx <= Len(tasks)
  /\ Len(tasks[prerunIdx].Identities) = 0
  /\ store' = SetSignedTaskIdentities(store, EmptyMap)
  /\ initSigned' = Append(initSigned, << >>)
  /\ prerunIdx' = prerunIdx + 1
  /\ UNCHANGED <<hookPc, prerunErr, signedWIDs, initCalls, loops>>
  /\ UNCHANGED <<config, cancelVars, loopVars>>

\* getIdentities gets the identities of the task signed; Prerun stores the
\* map of their tokens in hookResources.  The map is assigned to a variable
\* of the loop body: Prerun's outer signedWIDs is left as it is.
PrerunTaskSigned ==
  /\ hookPc = "running"
  /\ prerunIdx <= Len(tasks)
  /\ Len(tasks[prerunIdx].Identities) > 0
  /\ LET call == GetIdentitiesCall(alloc, tasks[prerunIdx])
     IN /\ initCalls' = Append(initCalls, call)
        /\ \E signed \in InitialAnswers(call.req) :
             /\ store' = SetSignedTaskIdentities(store, WidTokens(signed))
             /\ initSigned' = Append(initSigned, signed)
  /\ prerunIdx' = prerunIdx + 1
  /\ UNCHANGED <<hookPc, prerunErr, signedWIDs, loops>>
  /\ UNCHANGED <<config, cancelVars, loopVars>>

\* (mutant) the error of the signer is noted, and Prerun goes on with the
\* next task
PrerunTaskErrorIgnored ==
  /\ hookPc = "running"
  /\ prerunIdx <= Len(tasks)
  /\ Len(tasks[prerunIdx].Identities) > 0
  /\ initCalls' = Append(initCalls, GetIdentitiesCall(alloc, tasks[prerunIdx]))
  /\ initSigned' = Append(initSigned, << >>)
  /\ prerunErr' = "error"
  /\ prerunIdx' = prerunIdx + 1
  /\ UNCHANGED <<hookPc, signedWIDs, store, loops>>
  /\ UNCHANGED <<config, cancelVars, loopVars>>

\* the signer fails: getIdentities and Prerun return the error
PrerunTaskError ==
  /\ hookPc = "running"
  /\ prerunIdx <= Len(tasks)
  /\ Len(tasks[prerunIdx].Identities) > 0
  /\ initCalls' = Append(initCalls, GetIdentitiesCall(alloc, tasks[prerunIdx]))
  /\ hookPc' = "returned"
  /\ prerunErr' = "error"
  /\ UNCHANGED <<prerunIdx, signedWIDs, initSigned, store, loops>>
  /\ UNCHANGED <<config, cancelVars, loopVars>>

\* after the last task: go h.renew(createIndex, signedWIDs); return nil
PrerunStartRenew ==
  /\ hookPc = "running"
  /\ prerunIdx > Len(tasks)
  /\ loops' = loops + 1
  /\ loopPc' = "entry"
  /\ taskIdx' = 1
  /\ hookPc' = "returned"
  /\ prerunErr' = "nil"
  /\ UNCHANGED <<prerunIdx, signedWIDs, initCalls, initSigned, store>>
  /\ UNCHANGED <<reqs, widMap, renewNow, wait, retry, firstWait,
                 renewCalls, lastCall, sink, last>>
  /\ UNCHANGED <<config, cancelVars>>

(***************************************************************************)
(* identityHook.Stop and identityHook.Shutdown                             *)
(***************************************************************************)
\* h.stop(), the CancelFunc of stopCtx: the first call closes Done, which
\* wakes a goroutine blocked in a select on it; a later call does nothing
\* (mutant) Done is not among the cases of the select: cancelling does not
\* wake the goroutine
StopCtxCancelNoWake ==
  /\ cancelled' = TRUE
  /\ UNCHANGED <<loopPc, taskIdx, reqs, widMap, renewNow, wait, retry,
                 firstWait, renewCalls, lastCall, sink, last>>

\* (mutant) a stop function that can be called only once
StopCtxCancelOnce ==
  /\ ~cancelled
  /\ cancelled' = TRUE
  /\ loopPc' = IF loopPc = "parked" THEN "wokenDone" ELSE loopPc
  /\ UNCHANGED <<taskIdx, reqs, widMap, renewNow, wait, retry,
                 firstWait, renewCalls, lastCall, sink, last>>

StopCtxCancel ==
  /\ cancelled' = TRUE
  /\ loopPc' = IF ~cancelled /\ loopPc = "parked" THEN "wokenDone" ELSE loopPc
  /\ UNCHANGED <<taskIdx, reqs, widMap, renewNow, wait, retry,
                 firstWait, renewCalls, lastCall, sink, last>>

Stop ==
  /\ cancelCalls < MaxCancelCalls
  /\ cancelCalls' = cancelCalls + 1
  /\ StopCtxCancel
  /\ stopResult' = "nil"
  /\ UNCHANGED <<config, hookVars>>

Shutdown ==
  /\ cancelCalls < MaxCancelCalls
  /\ cancelCalls' = cancelCalls + 1
  /\ StopCtxCancel
  /\ UNCHANGED stopResult
  /\ UNCHANGED <<config, hookVars>>

(***************************************************************************)
(* identityHook.renew                                                      *)
(***************************************************************************)
\* a step of renew: its kind and the value of retry before it; of a step
\* that applies tokens, whether a setAltToken failed, whether a token was
\* of an identity that was not requested, whether a requested identity had
\* no token in the answer, the names of the requested identities of which
\* the sink accepted a token, and the earliest expiration of the tokens
\* written to a sink (the zero time when none was written)
Step(kind) == [kind |-> kind, retry |-> retry, sinkFailed |-> FALSE,
               stray |-> FALSE, missing |-> FALSE, accepted |-> {},
               earliest |-> ZeroTime]

\* (mutant) the identities without TTL are renewed as well
CandidatesAll(wids) == wids

\* the identities of a task that are renewed: those with a TTL
Candidates(wids) == SelectSeq(wids, LAMBDA wid : wid.TTL # 0)

\* widMap: Identity.Name -> Identity
WidMap(wids) ==
  [name \in { wids[i].Name : i \in DOMAIN wids } |->
     wids[CHOOSE i \in DOMAIN wids : wids[i].Name = name]]

\* renewNow: a candidate has no entry in signedWIDs
RenewNow(wids, signed) ==
  \E i \in DOMAIN wids : wids[i].Name \notin DOMAIN signed

\* minExp before the loop: the earliest expiration of the candidates that
\* have an entry in signedWIDs, or 30 hours from now
InitialMinExp(wids, signed, now) ==
  LET exps == { signed[wids[i].Name].Expiration :
                  i \in { j \in DOMAIN wids : wids[j].Name \in DOMAIN signed } }
              \cup {now + DefaultExp}
  IN CHOOSE m \in exps : \A e \in exps : m <= e

\* the wait before the first renewal
InitialWaits(wids, signed, floor) ==
  IF RenewNow(wids, signed) THEN {0}
  ELSE ExpiryToRenewTime(InitialMinExp(wids, signed, 0), 0, floor)

\* the task has no identities: renew returns
RenewNoIdentities ==
  /\ loopPc = "entry"
  /\ Len(tasks[taskIdx].Identities) = 0
  /\ loopPc' = "stopped"
  /\ last' = Step("noIdentities")
  /\ UNCHANGED <<taskIdx, reqs, widMap, renewNow, wait, retry,
                 firstWait, renewCalls, lastCall, sink>>
  /\ UNCHANGED <<config, cancelVars, hookVars>>

\* no identity of the task has a TTL: renew returns
RenewNoneExpire ==
  /\ loopPc = "entry"
  /\ Len(tasks[taskIdx].Identities) > 0
  /\ LET wids == Candidates(tasks[taskIdx].Identities)
     IN /\ Len(wids) = 0
        /\ reqs' = << >>
        /\ widMap' = EmptyMap
        /\ renewNow' = FALSE
  /\ loopPc' = "stopped"
  /\ last' = Step("noneExpire")
  /\ UNCHANGED <<taskIdx, wait, retry, firstWait, renewCalls, lastCall, sink>>
  /\ UNCHANGED <<config, cancelVars, hookVars>>

\* the requests, the first wait and the timer are set up, and the loop
\* condition, stopCtx.Err() == nil, is evaluated: it holds, the loop is
\* entered
RenewEnterLoop ==
  /\ loopPc = "entry"
  /\ LET task == tasks[taskIdx]
         wids == Candidates(task.Identities)
     IN /\ Len(wids) > 0
        /\ reqs' = Requests(alloc, task, wids)
        /\ widMap' = WidMap(wids)
        /\ renewNow' = RenewNow(wids, signedWIDs)
        /\ wait' \in InitialWaits(wids, signedWIDs, minWait)
  /\ retry' = 0
  /\ ~cancelled
  /\ loopPc' = "top"
  /\ last' = Step("entered")
  /\ UNCHANGED <<taskIdx, firstWait, renewCalls, lastCall, sink>>
  /\ UNCHANGED <<config, cancelVars, hookVars>>

\* the same, but stopCtx is cancelled already: the loop is not entered, and
\* renew goes on with the next task of ar.tasks, or returns after the last
RenewSkipLoop ==
  /\ loopPc = "entry"
  /\ LET task == tasks[taskIdx]
         wids == Candidates(task.Identities)
     IN /\ Len(wids) > 0
        /\ reqs' = Requests(alloc, task, wids)
        /\ widMap' = WidMap(wids)
        /\ renewNow' = RenewNow(wids, signedWIDs)
        /\ wait' \in InitialWaits(wids, signedWIDs, minWait)
  /\ retry' = 0
  /\ cancelled
  /\ IF taskIdx < Len(tasks)
     THEN loopPc' = "entry" /\ taskIdx' = taskIdx + 1
     ELSE loopPc' = "stopped" /\ UNCHANGED taskIdx
  /\ last' = Step("skipped")
  /\ UNCHANGED <<firstWait, renewCalls, lastCall, sink>>
  /\ UNCHANGED <<config, cancelVars, hookVars>>

\* widmgr.SignIdentities(createIndex, reqs) is called
IssueRenewal ==
  /\ renewCalls < callBudget
  /\ renewCalls' = renewCalls + 1
  /\ lastCall' = [minIndex |-> alloc.CreateIndex, req |-> reqs]
  /\ loopPc' = "signing"

\* timer.Reset(wait)
TimerReset == firstWait' = IF firstWait = -1 THEN wait ELSE firstWait

\* timer.Reset(wait) and the select: neither the timer nor Done is ready,
\* the goroutine blocks
RenewSleep ==
  /\ loopPc = "top"
  /\ wait > 0
  /\ ~cancelled
  /\ TimerReset
  /\ loopPc' = "parked"
  /\ last' = Step("sleep")
  /\ UNCHANGED <<taskIdx, reqs, widMap, renewNow, wait, retry,
                 renewCalls, lastCall, sink>>
  /\ UNCHANGED <<config, cancelVars, hookVars>>

\* timer.Reset(0) and the select: the timer is ready and its case is taken,
\* whether Done is ready or not
RenewSelectTimer ==
  /\ loopPc = "top"
  /\ wait = 0
  /\ TimerReset
  /\ IssueRenewal
  /\ last' = Step("timer")
  /\ UNCHANGED <<taskIdx, reqs, widMap, renewNow, wait, retry, sink>>
  /\ UNCHANGED <<config, cancelVars, hookVars>>

\* (mutant) the select has no case for Done: the goroutine blocks until
\* the timer fires, although stopCtx is cancelled
RenewSelectDoneSleeps ==
  /\ loopPc = "top"
  /\ cancelled
  /\ TimerReset
  /\ loopPc' = "parked"
  /\ last' = Step("sleep")
  /\ UNCHANGED <<taskIdx, reqs, widMap, renewNow, wait, retry,
                 renewCalls, lastCall, sink>>
  /\ UNCHANGED <<config, cancelVars, hookVars>>

\* timer.Reset(wait) and the select: Done is ready and its case is taken,
\* whether the timer is ready or not; renew returns
RenewSelectDone ==
  /\ loopPc = "top"
  /\ cancelled
  /\ TimerReset
  /\ loopPc' = "stopped"
  /\ last' = Step("selectDone")
  /\ UNCHANGED <<taskIdx, reqs, widMap, renewNow, wait, retry,
                 renewCalls, lastCall, sink>>
  /\ UNCHANGED <<config, cancelVars, hookVars>>

\* the wait elapses while the goroutine is blocked in the select: the timer
\* fires and wakes it
TimerFire ==
  /\ loopPc = "parked"
  /\ loopPc' = "wokenTimer"
  /\ UNCHANGED <<taskIdx, reqs, widMap, renewNow, wait, retry,
                 firstWait, renewCalls, lastCall, sink, last>>
  /\ UNCHANGED <<config, cancelVars, hookVars>>

\* case <-timer.C
RenewWakeTimer ==
  /\ loopPc = "wokenTimer"
  /\ IssueRenewal
  /\ last' = Step("timer")
  /\ UNCHANGED <<taskIdx, reqs, widMap, renewNow, wait, retry,
                 firstWait, sink>>
  /\ UNCHANGED <<config, cancelVars, hookVars>>

\* case <-h.stopCtx.Done(): return
RenewWakeDone ==
  /\ loopPc = "wokenDone"
  /\ loopPc' = "stopped"
  /\ last' = Step("wokenDone")
  /\ UNCHANGED <<taskIdx, reqs, widMap, renewNow, wait, retry,
                 firstWait, renewCalls, lastCall, sink>>
  /\ UNCHANGED <<config, cancelVars, hookVars>>

\* (mutant) the backoff is taken before retry is incremented
FailureWaitsBeforeIncrement(floor, attempt) ==
  { Backoff(floor, Hour, attempt - 1) + s : s \in RandomStagger(floor) }

\* (mutant) the backoff does not grow with retry
FailureWaitsFirstStep(floor, attempt) ==
  { Backoff(floor, Hour, 1) + s : s \in RandomStagger(floor) }

\* the wait after a failed renewal
FailureWaits(floor, attempt) ==
  { Backoff(floor, Hour, attempt) + s : s \in RandomStagger(floor) }

\* the handling of a failed renewal: retry++, wait = backoff + stagger,
\* continue
RenewFailed(kind) ==
  /\ loopPc = "signing"
  /\ retry' = retry + 1
  /\ wait' \in FailureWaits(minWait, retry + 1)
  /\ loopPc' = "top"
  /\ last' = Step(kind)
  /\ UNCHANGED <<taskIdx, reqs, widMap, renewNow, firstWait,
                 renewCalls, lastCall, sink>>
  /\ UNCHANGED <<config, cancelVars, hookVars>>

\* SignIdentities returns an error
SignError ==
  /\ loopPc = "signing"
  /\ RenewFailed("error")

\* SignIdentities returns no tokens
SignNoTokens ==
  /\ loopPc = "signing"
  /\ RenewFailed("noTokens")

\* the answers of the signer to a renewal: up to MaxResp signed identities,
\* of requested identities or of one that was not requested, in any order
\* (the expiration of an identity that was not requested is never read)
Responses(req) ==
  LET names == { req[i].IdentityName : i \in DOMAIN req }
      tok(name, e) == [IdentityName |-> name,
                       JWT |-> JWT(req[1].TaskName, name, "renewed"),
                       Expiration |-> e]
      toks == { tok(name, e) : name \in names \ {Unrequested},
                               e \in ExpOffsets }
              \cup {tok(Unrequested, LongExp)}
  IN UNION { [1..k -> toks] : k \in 1..MaxResp }

\* minExp after the tokens from the i-th on are applied, m being minExp
\* before: the values it can have, one for each value of the staggers
RECURSIVE ApplyMinExp(_, _, _, _, _, _, _)
ApplyMinExp(tokens, sinkOK, wm, floor, rt, i, m) ==
  IF i > Len(tokens) THEN {m}
  ELSE IF tokens[i].IdentityName \notin DOMAIN wm
  THEN ApplyMinExp(tokens, sinkOK, wm, floor, rt, i + 1, m)
  ELSE IF ~sinkOK[i]
  THEN UNION { ApplyMinExp(tokens, sinkOK, wm, floor, rt, i + 1,
                           0 + Backoff(floor, Hour, rt + 1) + s)
               : s \in RandomStagger(floor) }
  ELSE ApplyMinExp(tokens, sinkOK, wm, floor, rt, i + 1,
                   IF m = ZeroTime THEN tokens[i].Expiration
                   ELSE IF tokens[i].Expiration < m THEN tokens[i].Expiration
                   ELSE m)

\* the wait after the tokens are applied: minExp is reset to the zero time,
\* set by the tokens, and turned into a wait.  (minExp is a local of renew
\* that is not read after this, and is no part of the state.)
NextWaits(tokens, sinkOK, wm, floor, rt) ==
  UNION { ExpiryToRenewTime(m, 0, floor)
          : m \in ApplyMinExp(tokens, sinkOK, wm, floor, rt, 1, ZeroTime) }

\* the tokens whose setAltToken is called and succeeds
Written(tokens, sinkOK, wm) ==
  { i \in DOMAIN tokens : tokens[i].IdentityName \in DOMAIN wm /\ sinkOK[i] }

\* the earliest expiration of the tokens i of an answer
Earliest(tokens, is) ==
  LET exps == { tokens[i].Expiration : i \in is }
  IN CHOOSE m \in exps : \A e \in exps : m <= e

\* setAltToken: the sink after the tokens are applied
ApplySink(tokens, sinkOK, wm, snk) ==
  LET done == Written(tokens, sinkOK, wm)
      names == { tokens[i].IdentityName : i \in done }
  IN [name \in DOMAIN snk \cup names |->
        IF name \in names
        THEN tokens[CHOOSE i \in done :
                      /\ tokens[i].IdentityName = name
                      /\ \A j \in done :
                           j > i => tokens[j].IdentityName # name].JWT
        ELSE snk[name]]

\* a setAltToken of the tokens fails
SinkFailed(tokens, sinkOK, wm) ==
  \E i \in DOMAIN tokens : tokens[i].IdentityName \in DOMAIN wm /\ ~sinkOK[i]

\* a token is of an identity that is not in widMap
Stray(tokens, wm) ==
  \E i \in DOMAIN tokens : tokens[i].IdentityName \notin DOMAIN wm

\* an identity of widMap has no token in the answer
Missing(tokens, wm) ==
  \E name \in DOMAIN wm :
    \A i \in DOMAIN tokens : tokens[i].IdentityName # name

\* the names of the identities of widMap of which the sink accepts a token
\* of the answer
Accepted(tokens, sinkOK, wm) ==
  { tokens[i].IdentityName :
      i \in { j \in DOMAIN tokens :
                tokens[j].IdentityName \in DOMAIN wm /\ sinkOK[j] } }

\* what a step that applies the tokens of an answer leaves in last
Applied(tokens, sinkOK, wm, rt) ==
  [kind |-> "applied", retry |-> rt,
   sinkFailed |-> SinkFailed(tokens, sinkOK, wm),
   stray |-> Stray(tokens, wm),
   missing |-> Missing(tokens, wm),
   accepted |-> Accepted(tokens, sinkOK, wm),
   earliest |-> IF Written(tokens, sinkOK, wm) = {}
                THEN ZeroTime
                ELSE Earliest(tokens, Written(tokens, sinkOK, wm))]

\* (mutant) retry is not reset when tokens are applied
ApplyTokensKeepRetry(tokens, sinkOK) ==
  /\ loopPc = "signing"
  /\ sink' = ApplySink(tokens, sinkOK, widMap, sink)
  /\ last' = Applied(tokens, sinkOK, widMap, retry)
  /\ wait' \in NextWaits(tokens, sinkOK, widMap, minWait, retry)
  /\ retry' = retry
  /\ loopPc' = "top"
  /\ UNCHANGED <<taskIdx, reqs, widMap, renewNow, firstWait, renewCalls,
                 lastCall>>
  /\ UNCHANGED <<config, cancelVars, hookVars>>

\* the tokens of an answer that come before the first whose setAltToken
\* fails, that one included
UpToFailure(tokens, sinkOK, wm) ==
  LET failed == { i \in DOMAIN tokens :
                    tokens[i].IdentityName \in DOMAIN wm /\ ~sinkOK[i] }
      n == IF failed = {} THEN Len(tokens)
           ELSE CHOOSE i \in failed : \A j \in failed : i <= j
  IN 1..n

\* (mutant) the loop over the tokens ends at the first setAltToken that
\* fails: the tokens after it are not handed to their sinks
ApplyTokensStopAtFailure(tokens, sinkOK) ==
  /\ loopPc = "signing"
  /\ LET n == UpToFailure(tokens, sinkOK, widMap)
         head == [i \in n |-> tokens[i]]
         headOK == [i \in n |-> sinkOK[i]]
     IN /\ sink' = ApplySink(head, headOK, widMap, sink)
        /\ wait' \in NextWaits(head, headOK, widMap, minWait, retry)
  /\ last' = Applied(tokens, sinkOK, widMap, retry)
  /\ retry' = 0
  /\ loopPc' = "top"
  /\ UNCHANGED <<taskIdx, reqs, widMap, renewNow, firstWait, renewCalls,
                 lastCall>>
  /\ UNCHANGED <<config, cancelVars, hookVars>>

\* (mutant) the tokens are handed to setAltToken without looking their
\* identity up in widMap
ApplyTokensWriteStray(tokens, sinkOK) ==
  /\ loopPc = "signing"
  /\ LET names == DOMAIN widMap
                   \cup { tokens[i].IdentityName : i \in DOMAIN tokens }
         wm == [name \in names |-> name]
     IN /\ sink' = ApplySink(tokens, sinkOK, wm, sink)
        /\ wait' \in NextWaits(tokens, sinkOK, wm, minWait, retry)
  /\ last' = Applied(tokens, sinkOK, widMap, retry)
  /\ retry' = 0
  /\ loopPc' = "top"
  /\ UNCHANGED <<taskIdx, reqs, widMap, renewNow, firstWait, renewCalls,
                 lastCall>>
  /\ UNCHANGED <<config, cancelVars, hookVars>>

\* SignIdentities returns tokens: each is handed to setAltToken, which
\* succeeds or fails (sinkOK); the next wait is set from minExp and retry is
\* reset
ApplyTokens(tokens, sinkOK) ==
  /\ loopPc = "signing"
  /\ sink' = ApplySink(tokens, sinkOK, widMap, sink)
  /\ last' = Applied(tokens, sinkOK, widMap, retry)
  /\ wait' \in NextWaits(tokens, sinkOK, widMap, minWait, retry)
  /\ retry' = 0
  /\ loopPc' = "top"
  /\ UNCHANGED <<taskIdx, reqs, widMap, renewNow, firstWait, renewCalls,
                 lastCall>>
  /\ UNCHANGED <<config, cancelVars, hookVars>>

\* the outcomes of setAltToken for the tokens of an answer: one that is not
\* called (the identity is not in widMap) has none
SinkOutcomes(tokens, wm) ==
  { ok \in [DOMAIN tokens -> BOOLEAN] :
      \A i \in DOMAIN tokens : tokens[i].IdentityName \notin DOMAIN wm => ok[i] }

SignTokens ==
  /\ loopPc = "signing"
  /\ \E tokens \in Responses(reqs) :
       \E sinkOK \in SinkOutcomes(tokens, widMap) :
         ApplyTokens(tokens, sinkOK)

Next ==
  \/ PrerunTaskNoIdentities
  \/ PrerunTaskSigned
  \/ PrerunTaskError
  \/ PrerunStartRenew
  \/ Stop
  \/ Shutdown
  \/ RenewNoIdentities
  \/ RenewNoneExpire
  \/ RenewEnterLoop
  \/ RenewSkipLoop
  \/ RenewSleep
  \/ RenewSelectTimer
  \/ RenewSelectDone
  \/ TimerFire
  \/ RenewWakeTimer
  \/ RenewWakeDone
  \/ SignError
  \/ SignNoTokens
  \/ SignTokens

Spec == Init /\ [][Next]_vars

\* the allocations of one task with at most one identity
OneIdentityLists == { tl \in OneTaskLists : Len(tl[1].Identities) <= 1 }

\* an allocation of one task with at most one identity is followed up to
\* MaxFailRun renewals: long enough for the backoff to reach its ceiling
InitLong == InitWith({MaxFailRun}, OneIdentityLists, Floors)

SpecLong == InitLong /\ [][Next]_vars

\* a step of the renew goroutine itself
LoopStep ==
  \/ RenewNoIdentities
  \/ RenewNoneExpire
  \/ RenewEnterLoop
  \/ RenewSkipLoop
  \/ RenewSleep
  \/ RenewSelectTimer
  \/ RenewSelectDone
  \/ RenewWakeTimer
  \/ RenewWakeDone

\* the return of a SignIdentities call of renew
SignReturns == SignError \/ SignNoTokens \/ SignTokens

\* the goroutine is scheduled when it can run, an armed timer fires, and a
\* signing call in flight returns
Fairness ==
  /\ WF_vars(LoopStep)
  /\ WF_vars(TimerFire)
  /\ WF_vars(SignReturns)

\* the same allocations as InitLong, with the minWait of newIdentityHook
InitFair == InitWith({MaxFailRun}, OneIdentityLists, {1})

SpecFair == InitFair /\ [][Next]_vars /\ Fairness

(***************************************************************************)
(* Properties                                                              *)
(***************************************************************************)
\* the tasks of the allocation that declare an identity, in task order
TasksWithIdentities == SelectSeq(tasks, LAMBDA t : Len(t.Identities) > 0)

\* C1: when the signer fails an initial signing call, Prerun returns the
\* error at once: the failed call is the last initial call (none is made for
\* the tasks after it), no renew goroutine is started, and so no renewal
\* call is made and no token is written to a sink.
C1_InitialFailureIsFatal ==
  prerunErr = "error" =>
    /\ hookPc = "returned"
    /\ prerunIdx \in DOMAIN tasks
    /\ Len(initCalls) =
         Cardinality({ i \in 1..prerunIdx : Len(tasks[i].Identities) > 0 })
    /\ initCalls[Len(initCalls)].req[1].TaskName = tasks[prerunIdx].Name
    /\ loops = 0
    /\ loopPc = "none"
    /\ renewCalls = 0
    /\ sink = EmptyMap

\* the signer failed for the first of two tasks that both have identities
C1_Witness ==
  /\ prerunErr = "error"
  /\ prerunIdx = 1
  /\ Len(tasks) = 2
  /\ Len(tasks[2].Identities) > 0
  /\ Len(initCalls) = 1

\* C2: when stopCtx is cancelled while the goroutine is blocked in the
\* select with the timer armed, the select takes the Done case: the only
\* step the loop takes from there is its return, with no signing call and
\* no write to a sink, and a returned loop stays returned.
C2_CancelWhileSleeping ==
  [][ /\ (loopPc = "parked" /\ ~cancelled /\ cancelled') =>
           loopPc' = "wokenDone"
      /\ loopPc \in {"wokenDone", "stopped"} =>
           /\ loopPc' \in {loopPc, "stopped"}
           /\ renewCalls' = renewCalls
           /\ lastCall' = lastCall
           /\ sink' = sink
           /\ last'.kind \notin {"timer", "applied"} ]_vars

\* the loop returned because it was cancelled while it slept between two
\* renewals
C2_Witness ==
  /\ loopPc = "stopped"
  /\ last.kind = "wokenDone"
  /\ renewCalls >= 1
  /\ wait > 0

\* C3: Stop and Shutdown can be called in every state, whatever the loop is
\* doing, and return without waiting for it (Stop returns nil); a call made
\* when stopCtx is cancelled already changes nothing of the hook or of the
\* loop, so that the loop behaves as after the first call alone.
C3_CancelIdempotent ==
  /\ [](cancelCalls < MaxCancelCalls => ENABLED Stop /\ ENABLED Shutdown)
  /\ [](stopResult \in {"none", "nil"})
  /\ [][ cancelCalls' # cancelCalls =>
           /\ cancelled'
           /\ UNCHANGED <<config, hookVars>>
           /\ UNCHANGED <<taskIdx, reqs, widMap, renewNow, wait, retry,
                          firstWait, renewCalls, lastCall, sink, last>>
           /\ loopPc' # loopPc => loopPc = "parked" /\ loopPc' = "wokenDone"
           /\ cancelled => UNCHANGED loopPc ]_vars

\* Stop and Shutdown were both called, and the loop returned after it had
\* made a renewal
C3_Witness ==
  /\ cancelCalls = 2
  /\ stopResult = "nil"
  /\ loopPc = "stopped"
  /\ renewCalls >= 1

\* the names of the identities of a task that have a TTL
ExpiringNames(task) ==
  { task.Identities[i].Name :
      i \in { j \in DOMAIN task.Identities : task.Identities[j].TTL # 0 } }

\* the names of the identities of a request
RequestedNames(req) == { req[i].IdentityName : i \in DOMAIN req }

\* C4: a renewal request holds one request for each identity with a TTL of
\* the task that is renewed, and nothing else: no identity without TTL is
\* in it.  When no identity of the first task has a TTL, the loop makes no
\* renewal request, and it has returned as soon as it has looked at the
\* task.
C4_OnlyExpiringRenewed ==
  /\ renewCalls > 0 =>
       /\ RequestedNames(lastCall.req) = ExpiringNames(tasks[taskIdx])
       /\ Len(lastCall.req) = Cardinality(ExpiringNames(tasks[taskIdx]))
       /\ \A i \in DOMAIN lastCall.req :
            /\ lastCall.req[i].TaskName = tasks[taskIdx].Name
            /\ lastCall.req[i].AllocID = alloc.ID
       /\ lastCall.req = reqs
  /\ ExpiringNames(tasks[1]) = {} =>
       /\ renewCalls = 0
       /\ loopPc \in {"none", "entry", "stopped"}
       /\ firstWait = -1

\* a renewal was requested for a task that has an identity without TTL and
\* one with a TTL
C4_Witness ==
  /\ renewCalls > 0
  /\ Len(lastCall.req) = 1
  /\ \E i \in DOMAIN tasks[taskIdx].Identities :
       tasks[taskIdx].Identities[i].TTL = 0

\* the signed identities the signer returned to getIdentities for the task
\* of the loop
InitiallySigned == initSigned[taskIdx]

\* every identity with a TTL of the task of the loop got a token in Prerun
AllInitiallySigned ==
  /\ taskIdx \in DOMAIN initSigned
  /\ ExpiringNames(tasks[taskIdx]) # {}
  /\ ExpiringNames(tasks[taskIdx]) \subseteq
       { InitiallySigned[i].IdentityName : i \in DOMAIN InitiallySigned }

\* the earliest expiration of the tokens of Prerun of the identities with a
\* TTL of the task of the loop
EarliestInitial ==
  LET exps == { InitiallySigned[i].Expiration :
                  i \in { j \in DOMAIN InitiallySigned :
                            InitiallySigned[j].IdentityName
                              \in ExpiringNames(tasks[taskIdx]) } }
  IN CHOOSE m \in exps : \A e \in exps : m <= e

\* C5: when every identity with a TTL got a token in Prerun, the first wait
\* of the loop is a renewal time of the earliest of their expirations: it
\* is at least minWait and less than the time left to that expiration, and
\* the loop did not set renewNow.
C5_FirstWaitFromInitialTokens ==
  (firstWait >= 0 /\ AllInitiallySigned) =>
    /\ firstWait \in ExpiryToRenewTime(EarliestInitial, 0, minWait)
    /\ firstWait >= minWait
    /\ firstWait < EarliestInitial - 0
    /\ ~renewNow

\* C6: after the tokens of an answer are applied, the next wait is at
\* least minWait and ends before the expiration of every token that was
\* written to its sink.  (Stated for the expirations that are more than
\* minWait away: no wait of at least minWait ends before the others.)
C6_RenewalBeforeExpiration ==
  (last.kind = "applied" /\ last.earliest # ZeroTime) =>
    /\ wait >= minWait
    /\ last.earliest > minWait => 0 + wait < last.earliest

\* the step handles a failed renewal: an error, or an answer without tokens
FailureStep == loopPc = "signing" /\ last'.kind \in {"error", "noTokens"}

\* C7: an error of the signer and an answer without tokens are handled in
\* the same way: retry is incremented by one, no token is written to a
\* sink, the next wait is the backoff of the new retry plus a stagger below
\* minWait, and the loop goes back to its select with the same requests,
\* which are those of its next call; both outcomes are possible whenever a
\* call is in flight, whatever the number of failures before.
C7_FailureBacksOff ==
  /\ [][ FailureStep =>
           /\ retry' = retry + 1
           /\ sink' = sink
           /\ (wait' - Backoff(minWait, Hour, retry + 1))
                \in RandomStagger(minWait)
           /\ reqs' = reqs
           /\ loopPc' = "top"
           /\ UNCHANGED <<renewCalls, lastCall, cancelVars, hookVars>> ]_vars
  /\ [](loopPc = "signing" => ENABLED SignError /\ ENABLED SignNoTokens)
  /\ [](renewCalls > 0 => lastCall.req = reqs /\ reqs # << >>)

\* the signer answered without tokens after three failures in a row, and
\* the loop called it again
C7_Witness ==
  /\ last.kind = "timer"
  /\ retry >= 4
  /\ loopPc = "signing"

\* C8: in a run of failed renewals every wait is at least minWait, and,
\* as long as the backoff of the wait before was below the ceiling of one
\* hour, a wait is not shorter than the wait before it.
C8_BackoffMonotone ==
  [][ FailureStep =>
        /\ wait' >= minWait
        /\ (retry >= 1 /\ Backoff(minWait, Hour, retry) < Hour) =>
             wait' >= wait ]_vars

\* a run of failures has reached the ceiling
C8_Witness ==
  /\ last.kind \in {"error", "noTokens"}
  /\ retry >= 2
  /\ Backoff(minWait, Hour, retry - 1) < Hour
  /\ Backoff(minWait, Hour, retry) = Hour
  /\ wait >= Hour

\* C9 as stated: when tokens are applied after a failure, retry is reset
\* and the next wait is a renewal time of the earliest expiration returned.
C9_Original ==
  [][ (loopPc = "signing" /\ retry >= 1) =>
      \A tokens \in Responses(reqs) :
        \A sinkOK \in SinkOutcomes(tokens, widMap) :
          ApplyTokens(tokens, sinkOK) =>
            /\ retry' = 0
            /\ wait' \in ExpiryToRenewTime(
                           Earliest(tokens, DOMAIN tokens), 0, minWait) ]_vars

\* the step applies the tokens of an answer
ApplyStep == loopPc = "signing" /\ last'.kind = "applied"

\* C9: when tokens are applied, after any number of failures, retry is
\* reset to 0; when a token of the answer is written to its sink and no
\* write to a sink fails, the next wait is a renewal time of the earliest
\* expiration of the tokens of requested identities, which are the tokens
\* written.  A failure after that backs off from the first step.
C9_SuccessResetsRetry ==
  /\ [][ ApplyStep =>
           /\ retry' = 0
           /\ (last'.earliest # ZeroTime /\ ~last'.sinkFailed) =>
                wait' \in ExpiryToRenewTime(last'.earliest, 0, minWait) ]_vars
  /\ [][ (FailureStep /\ retry = 0) =>
           (wait' - Backoff(minWait, Hour, 1)) \in RandomStagger(minWait) ]_vars

\* the signer failed three times in a row and then answered with tokens of
\* requested identities, which were all written
C9_Witness ==
  /\ last.kind = "applied"
  /\ last.retry >= 3
  /\ ~last.sinkFailed
  /\ ~last.stray
  /\ retry = 0

\* C10: when Prerun has returned nil, it has made one initial call for each
\* task that declares an identity, in task order, and none for the others;
\* each call has the creation index of the allocation and one request per
\* declared identity, in the order of the declarations; and one renew
\* goroutine was started.  No more than one is started ever.
C10_PrerunCalls ==
  /\ loops <= 1
  /\ prerunErr = "nil" =>
       /\ loops = 1
       /\ Len(initCalls) = Len(TasksWithIdentities)
       /\ \A k \in DOMAIN initCalls :
            LET task == TasksWithIdentities[k]
                call == initCalls[k]
            IN /\ call.minIndex = alloc.CreateIndex
               /\ Len(call.req) = Len(task.Identities)
               /\ \A i \in DOMAIN call.req :
                    call.req[i] = [AllocID |-> alloc.ID,
                                   TaskName |-> task.Name,
                                   IdentityName |-> task.Identities[i].Name]

\* Prerun returned nil for an allocation of a task without identities and a
\* task with two
C10_Witness ==
  /\ prerunErr = "nil"
  /\ \E i \in DOMAIN tasks : Len(tasks[i].Identities) = 0
  /\ \E i \in DOMAIN tasks : Len(tasks[i].Identities) = 2
  /\ Len(initCalls) = 1
  /\ loops = 1

\* C11: the store is kept current by the loop: of every identity whose
\* renewed token was written to its sink, the store holds that same token.
C11_StoreCurrent ==
  \A name \in DOMAIN sink :
    /\ name \in DOMAIN store
    /\ store[name] = sink[name]

\* C12: when the answer has tokens but none of a requested identity, that
\* identity stays due now: the next wait is that of an immediate check, 0
\* or the renewal time of an expiration that is now (minWait and its
\* stagger), and is not taken from the expirations of the tokens returned.
C12_MissingRecheckedAtOnce ==
  [][ (ApplyStep /\ last'.missing) =>
        wait' \in {0} \cup ExpiryToRenewTime(0, 0, minWait) ]_vars

\* C13: a setAltToken that fails does not end the cycle: of every requested
\* identity of which the sink accepts a token of the same answer, before or
\* after the failed one, the renewed token is in the sink afterwards; the
\* loop goes back to its select; and the next wait is at least minWait and
\* no more than the backoff of retry + 1 plus its stagger.
C13_SinkFailureIsolated ==
  [][ (ApplyStep /\ last'.sinkFailed) =>
        /\ \A name \in last'.accepted :
             /\ name \in DOMAIN sink'
             /\ sink'[name] = JWT(tasks[taskIdx].Name, name, "renewed")
        /\ loopPc' = "top"
        /\ wait' >= minWait
        /\ wait' < Backoff(minWait, Hour, retry + 1) + minWait ]_vars

\* an answer had a token for each of two requested identities: the sink
\* failed for one and accepted the other, which had not been written before
C13_Witness ==
  /\ last.kind = "applied"
  /\ last.sinkFailed
  /\ ~last.missing
  /\ ~last.stray
  /\ Cardinality(DOMAIN widMap) = 2
  /\ Cardinality(last.accepted) = 1
  /\ DOMAIN sink = last.accepted
  /\ loopPc = "top"

\* C14: retry is reset to 0 by a step that applies an answer with a token
\* for every requested identity and without a failed setAltToken, and only
\* by such a step: after a failed setAltToken, or an answer without a
\* token for a requested identity, retry is not lower than before.
C14_RetryResetOnlyOnCleanCycle ==
  [][ ApplyStep =>
        IF last'.sinkFailed \/ last'.missing
        THEN retry' >= retry
        ELSE retry' = 0 ]_vars

\* C15: an answer with a token of an identity that was not requested does
\* not end the loop and writes nothing to a sink for that identity: the
\* sinks written are those of the requested identities of which the sink
\* accepts a token of the answer, the loop goes back to its select, and the
\* next wait is at least minWait, also when no token of the answer is of a
\* requested identity.  No sink ever holds a token of an identity that is
\* not requested.
C15_UnrequestedDiscarded ==
  /\ [](DOMAIN sink \subseteq DOMAIN widMap)
  /\ [][ (ApplyStep /\ last'.stray) =>
           /\ DOMAIN sink' = DOMAIN sink \cup last'.accepted
           /\ \A name \in last'.accepted :
                sink'[name] = JWT(tasks[taskIdx].Name, name, "renewed")
           /\ \A name \in DOMAIN sink \ last'.accepted :
                sink'[name] = sink[name]
           /\ loopPc' = "top"
           /\ wait' >= minWait ]_vars

\* every token of an answer was of an identity that was not requested:
\* nothing was written, and the loop is back at its select with a wait
C15_Witness ==
  /\ last.kind = "applied"
  /\ last.stray
  /\ last.accepted = {}
  /\ ~last.sinkFailed
  /\ last.earliest = ZeroTime
  /\ sink = EmptyMap
  /\ loopPc = "top"
  /\ wait >= minWait

\* C16: when stopCtx is cancelled before the loop starts a sleep (the
\* goroutine is at timer.Reset, whatever the wait, 0 included), the loop
\* makes no signing call from there.
C16_CancelSeenBeforeSleep ==
  [][ (cancelled /\ loopPc = "top") =>
        /\ renewCalls' = renewCalls
        /\ loopPc' # "signing" ]_vars

\* the loop waits for a call that the model does not follow
OutOfBudget == loopPc = "wokenTimer" /\ renewCalls = callBudget

\* C17: once stopCtx is cancelled, a loop that was started has returned at
\* some later time (within the calls followed), whatever retry and wait
\* are: at its select with a wait pending, its next step is the return;
\* a returned loop stays returned; and a loop that has an identity to
\* renew returns only when stopCtx is cancelled.
C17_ShutdownLiveness ==
  /\ (cancelled /\ loopPc # "none" /\ ~OutOfBudget) ~> (loopPc = "stopped")
  /\ [][ (cancelled /\ loopPc = "top" /\ wait > 0 /\ loopPc' # loopPc) =>
           loopPc' = "stopped" ]_vars
  /\ [][ loopPc = "stopped" => loopPc' = "stopped" ]_vars
  /\ [][ (loopPc # "stopped" /\ loopPc' = "stopped"
          /\ ExpiringNames(tasks[taskIdx]) # {}) => cancelled ]_vars

\* the loop returned on cancellation after a run of failures that had
\* taken its wait to the ceiling of one hour
C17_Witness ==
  /\ loopPc = "stopped"
  /\ cancelled
  /\ last.kind \in {"selectDone", "wokenDone"}
  /\ retry >= 2
  /\ Backoff(minWait, Hour, retry) = Hour
  /\ wait >= Hour

\* the tasks that have an identity with a TTL, by index in ar.tasks
Renewable == { i \in DOMAIN tasks : ExpiringNames(tasks[i]) # {} }

\* C18: every renewal request is for the first task, in the order of
\* ar.tasks, that has an identity to renew, and for no later one; a task
\* before it that has no identities, or none with a TTL, does not keep the
\* loop from renewing it: the loop does not return before it has looked at
\* that task, cancellation apart.
C18_FirstRenewableTaskRenewed ==
  /\ renewCalls > 0 =>
       /\ Renewable # {}
       /\ \A i \in DOMAIN lastCall.req :
            lastCall.req[i].TaskName =
              tasks[CHOOSE k \in Renewable : \A j \in Renewable : k <= j].Name
  /\ (loopPc = "stopped" /\ ~cancelled) => Renewable = {}

\* the signed identities of an answer, or the outcomes of their sinks, in
\* the order p
Reordered(seq, p) == [i \in DOMAIN seq |-> seq[p[i]]]

\* C19: whatever answer a signing call in flight gets, and whatever the
\* sinks do, the next check time and the next wait are the same for every
\* order of the signed identities in the answer, and the next check time
\* is not later than the earliest expiration of the tokens written to a
\* sink.
C19_OrderIndependent ==
  loopPc = "signing" =>
    \A tokens \in Responses(reqs) :
      \A sinkOK \in SinkOutcomes(tokens, widMap) :
        LET checks == ApplyMinExp(tokens, sinkOK, widMap, minWait, retry,
                                  1, ZeroTime)
            done == Written(tokens, sinkOK, widMap)
        IN /\ \A p \in Permutations(DOMAIN tokens) :
                /\ ApplyMinExp(Reordered(tokens, p), Reordered(sinkOK, p),
                               widMap, minWait, retry, 1, ZeroTime) = checks
                /\ NextWaits(Reordered(tokens, p), Reordered(sinkOK, p),
                             widMap, minWait, retry)
                     = NextWaits(tokens, sinkOK, widMap, minWait, retry)
           /\ done # {} => \A m \in checks : m <= Earliest(tokens, done)

\* the names of the identities signed in Prerun for the tasks after the
\* t-th
SignedLater(t) ==
  UNION { { initSigned[u][i].IdentityName : i \in DOMAIN initSigned[u] }
          : u \in { v \in DOMAIN initSigned : v > t } }

\* C20: when Prerun has returned nil, the store holds the token of every
\* identity that was signed for a task during Prerun, whatever tasks came
\* after that task.  (Of an identity name that a later task has as well,
\* the token of the later task is the one looked for.)
C20_StoreHoldsAllTasks ==
  prerunErr = "nil" =>
    \A t \in DOMAIN initSigned :
      \A i \in DOMAIN initSigned[t] :
        LET name == initSigned[t][i].IdentityName
        IN name \notin SignedLater(t) =>
             /\ name \in DOMAIN store
             /\ store[name] = initSigned[t][i].JWT

====
